---- MODULE Spec2Model ----
(***************************************************************************)
(* Report lifecycle of the crowd-sourced waste management app (src/app.py):*)
(* the submission pipeline (form -> validation -> routing -> append+save), *)
(* the dashboard's manual resolution, and the whole-table CSV persistence  *)
(* shared by several browser sessions.                                     *)
(*                                                                         *)
(* Text is modelled as a sequence: Location and Description as sequences of*)
(* characters, the program's literals (waste types, labels) as strings     *)
(* whose words are given by Tok.  A UUID is a pair <<first 8 hex digits,   *)
(* rest>>; uuid4 never repeats a whole UUID, but two UUIDs may share their *)
(* first 8 digits.                                                         *)
(***************************************************************************)
EXTENDS Integers, Sequences, FiniteSets, TLC

VARIABLES
    started,      \* the sessions whose st.session_state holds 'reports_df'
    reports_df,   \* session -> st.session_state['reports_df'], a sequence of rows
    csv,          \* waste_reports.csv: whether it exists, and its data lines
    images,       \* image files present on disk
    issued,       \* number of report UUIDs generated so far
    now,          \* the clock read by pd.Timestamp.now()
    rerun         \* the latest script run: its session, event, widget values and result

vars == <<started, reports_df, csv, images, issued, now, rerun>>

\* ---------------------------------------------------------------- bounds
MaxReports == 2     \* reports created over a run
MaxWords == 3       \* words of the longest Location entered
MaxDescLen == 31    \* characters of the longest Description entered

Sessions == {"s1", "s2"}
Hex8 == {"0a", "0b"}

\* ------------------------------------------------------------ constants
None == "None"       \* Python's None
NaN == "NaN"         \* pandas' missing value
PyTrue == "True"
PyFalse == "False"
PyBool(b) == IF b THEN PyTrue ELSE PyFalse
SavingFailed == "Saving Failed"

Unset(x) == x \in {None, NaN}

WasteTypes == {"General Trash", "Recyclables", "Construction Debris", "Hazardous", "Other"}

\* The words of the program's string literals.
Tok(s) ==
    CASE s = "General Trash" -> <<"General", "Trash">>
      [] s = "Recyclables" -> <<"Recyclables">>
      [] s = "Construction Debris" -> <<"Construction", "Debris">>
      [] s = "Hazardous" -> <<"Hazardous">>
      [] s = "Other" -> <<"Other">>
      [] s = "Hazardous Waste Zone" -> <<"Hazardous", "Waste", "Zone">>
      [] s = "Urban Cleanup Sector A" -> <<"Urban", "Cleanup", "Sector", "A">>
      [] s = "Validation Pending/Vague Location" -> <<"Validation", "Pending/Vague", "Location">>
      [] s = "New" -> <<"New">>
      [] s = "Resolved" -> <<"Resolved">>
      [] s = "Queued for Standard Pickup (72 hr target)" ->
             <<"Queued", "for", "Standard", "Pickup", "(", "72", "hr", "target", ")">>
      [] s = "Awaiting Specialized Team Dispatch" ->
             <<"Awaiting", "Specialized", "Team", "Dispatch">>
      [] s = "Assigned to Local Crew (24 hr target)" ->
             <<"Assigned", "to", "Local", "Crew", "(", "24", "hr", "target", ")">>
      [] s = "Assigned to Local Crew (48 hr target)" ->
             <<"Assigned", "to", "Local", "Crew", "(", "48", "hr", "target", ")">>
      [] s = "target" -> <<"target">>
      [] s = "Dispatch" -> <<"Dispatch">>

\* Python's `sub in s` on two literals: sub's words occur contiguously in s.
StrIn(sub, s) ==
    LET a == Tok(sub)
        b == Tok(s)
    IN \E i \in 0..(Len(b) - Len(a)) : \A j \in 1..Len(a) : b[i + j] = a[j]

\* The pending filter as "anything not yet Resolved".
str_contains_NotResolved(status) == status # "Resolved"

\* Series.str.contains('target|Dispatch') on one cell.
str_contains_target_or_Dispatch(status) ==
    StrIn("target", status) \/ StrIn("Dispatch", status)

\* ------------------------------------------------------------ form input
Chars(n, c) == [i \in 1..n |-> c]

RECURSIVE WordsLoc(_)
\* A Location of n one-letter words separated by single blanks.
WordsLoc(n) == IF n = 0 THEN <<>>
               ELSE IF n = 1 THEN <<"a">>
               ELSE WordsLoc(n - 1) \o <<" ", "a">>

\* Locations typed into loc_input: 0..MaxWords words, and one with leading,
\* doubled and trailing blanks (two words, six characters).
Locations == {WordsLoc(n) : n \in 0..MaxWords} \cup {<<" ", "a", " ", " ", "a", " ">>}

DescThreshold == 30
WordThreshold == 3

\* Descriptions typed into desc_input, by length.
Descriptions == {Chars(n, "d") : n \in {0, DescThreshold, MaxDescLen}}

Contacts == {""}

\* ---------------------------------------------------------------- text
RECURSIVE SplitFrom(_, _, _, _)
SplitFrom(s, i, cur, acc) ==
    IF i > Len(s) THEN (IF cur = <<>> THEN acc ELSE Append(acc, cur))
    ELSE IF s[i] = " " THEN SplitFrom(s, i + 1, <<>>, IF cur = <<>> THEN acc ELSE Append(acc, cur))
    ELSE SplitFrom(s, i + 1, Append(cur, s[i]), acc)

\* str.split(): the maximal runs of non-blank characters.
split(s) == SplitFrom(s, 1, <<>>, <<>>)

\* uuid[:8]
Prefix8(uuid) == uuid[1]

\* f"img_{str(uuid.uuid4())[:8]}.jpg"
ImgName(p) == "img_" \o p \o ".jpg"

\* ---------------------------------------------------- report_issue_form
\* report_issue_form rejecting only an empty Location.
report_issue_form_LocationOnly(location, waste_type, description, reported_by, uploaded, wrote, imgp, id, ts) ==
    IF location = <<>> THEN <<>>
    ELSE <<[ID |-> id,
          Location |-> location,
          Waste_Type |-> waste_type,
          Description |-> description,
          Reported_By |-> reported_by,
          Timestamp |-> ts,
          Status |-> "New",
          Is_Valid |-> None,
          Predicted_Area |-> None,
          Priority |-> None,
          Image_Filename |-> IF ~uploaded THEN None
                             ELSE IF wrote THEN ImgName(imgp) ELSE SavingFailed]>>

\* What the form returns on submission: <<>> for None, else <<the dict>>.
\* wrote: whether the image file could be written; imgp: the first 8 digits
\* of the image's UUID.
report_issue_form(location, waste_type, description, reported_by, uploaded, wrote, imgp, id, ts) ==
    IF location = <<>> \/ description = <<>> THEN <<>>
    ELSE <<[ID |-> id,
          Location |-> location,
          Waste_Type |-> waste_type,
          Description |-> description,
          Reported_By |-> reported_by,
          Timestamp |-> ts,
          Status |-> "New",
          Is_Valid |-> None,
          Predicted_Area |-> None,
          Priority |-> None,
          Image_Filename |-> IF ~uploaded THEN None
                             ELSE IF wrote THEN ImgName(imgp) ELSE SavingFailed]>>

\* Image files on disk after the form ran.
FormImages(location, description, uploaded, wrote, imgp, disk) ==
    IF location = <<>> \/ description = <<>> THEN disk
    ELSE IF uploaded /\ wrote THEN disk \cup {ImgName(imgp)} ELSE disk

\* --------------------------------------------------- simulate_validation
has_image(report_data) == report_data.Image_Filename \notin {None, SavingFailed}

location_valid(report_data) == Len(split(report_data.Location)) >= WordThreshold

\* description_detailed with >= for >.
description_detailed_AtLeast(report_data) == Len(report_data.Description) >= DescThreshold

description_detailed(report_data) == Len(report_data.Description) > DescThreshold

is_valid(report_data) ==
    (location_valid(report_data) /\ description_detailed(report_data)) \/ has_image(report_data)

\* predicted_area deciding the sector on the text alone, not on is_valid.
predicted_area_TextOnly(report_data) ==
    IF StrIn("Hazardous", report_data.Waste_Type) THEN "Hazardous Waste Zone"
    ELSE IF location_valid(report_data) /\ description_detailed(report_data)
    THEN "Urban Cleanup Sector A"
    ELSE "Validation Pending/Vague Location"

predicted_area(report_data) ==
    IF StrIn("Hazardous", report_data.Waste_Type) THEN "Hazardous Waste Zone"
    ELSE IF is_valid(report_data) THEN "Urban Cleanup Sector A"
    ELSE "Validation Pending/Vague Location"

simulate_validation(report_data) ==
    [report_data EXCEPT !.Is_Valid = PyBool(is_valid(report_data)),
                        !.Predicted_Area = predicted_area(report_data)]

\* ----------------------------------- simulate_routing_and_prioritization
\* <<priority, status>> after the first if/elif.
BaseRoute(report_data) ==
    IF report_data.Waste_Type = "Hazardous"
    THEN <<"Critical (Immediate Action)", "Awaiting Specialized Team Dispatch">>
    ELSE IF StrIn("Urban Cleanup Sector A", report_data.Predicted_Area)
    THEN <<"High", "Assigned to Local Crew (24 hr target)">>
    ELSE <<"Medium", "Queued for Standard Pickup (72 hr target)">>

\* Route with the image refinement applied whatever the priority.
Route_AnyPriority(report_data) ==
    LET base == BaseRoute(report_data)
    IN IF report_data.Image_Filename \notin {None, SavingFailed}
       THEN <<"Medium/High (Visual Verified)", "Assigned to Local Crew (48 hr target)">>
       ELSE base

\* <<priority, status>> after the image refinement.
Route(report_data) ==
    LET base == BaseRoute(report_data)
    IN IF report_data.Image_Filename \notin {None, SavingFailed} /\ base[1] = "Medium"
       THEN <<"Medium/High (Visual Verified)", "Assigned to Local Crew (48 hr target)">>
       ELSE base

simulate_routing_and_prioritization(report_data) ==
    [report_data EXCEPT !.Priority = Route(report_data)[1],
                        !.Status = Route(report_data)[2]]

\* ------------------------------------------------------- tab1 pipeline
\* Process routing every report, valid or not.
Process_AlwaysRoute(new_report_data) ==
    simulate_routing_and_prioritization(simulate_validation(new_report_data))

\* The report as appended to the table: validated, and routed only if valid.
Process(new_report_data) ==
    LET processed_report == simulate_validation(new_report_data)
    IN IF processed_report.Is_Valid = PyTrue
       THEN simulate_routing_and_prioritization(processed_report)
       ELSE processed_report
\* ------------------------------------------------- waste_reports.csv
\* DataFrame.to_csv writes a missing value and an empty string as an empty cell.
CsvCell(v) == IF v \in {None, NaN, ""} THEN "" ELSE v

\* pandas.read_csv reads an empty cell as a missing value.
ReadCell(c) == IF c = "" THEN NaN ELSE c

CsvLine(row) ==
    [ID |-> row.ID,
     Location |-> row.Location,
     Waste_Type |-> CsvCell(row.Waste_Type),
     Description |-> row.Description,
     Reported_By |-> CsvCell(row.Reported_By),
     Timestamp |-> <<"ts", row.Timestamp>>,
     Status |-> CsvCell(row.Status),
     Is_Valid |-> CsvCell(row.Is_Valid),
     Predicted_Area |-> CsvCell(row.Predicted_Area),
     Priority |-> CsvCell(row.Priority),
     Image_Filename |-> CsvCell(row.Image_Filename)]

ReadLine(line) ==
    [ID |-> line.ID,
     Location |-> line.Location,
     Waste_Type |-> ReadCell(line.Waste_Type),
     Description |-> line.Description,
     Reported_By |-> ReadCell(line.Reported_By),
     Timestamp |-> line.Timestamp[2],
     Status |-> ReadCell(line.Status),
     Is_Valid |-> ReadCell(line.Is_Valid),
     Predicted_Area |-> ReadCell(line.Predicted_Area),
     Priority |-> ReadCell(line.Priority),
     Image_Filename |-> ReadCell(line.Image_Filename)]

\* save_reports appending only the newest row to the lines on disk.
save_reports_AppendLast(df) ==
    [exists |-> TRUE,
     lines |-> IF df = <<>> THEN csv.lines ELSE Append(csv.lines, CsvLine(df[Len(df)]))]

\* The file written by save_reports(df).
save_reports(df) == [exists |-> TRUE, lines |-> [i \in 1..Len(df) |-> CsvLine(df[i])]]

\* The DataFrame returned by load_reports(): empty when the file is absent.
load_reports(file) ==
    IF ~file.exists THEN <<>>
    ELSE [i \in 1..Len(file.lines) |-> ReadLine(file.lines[i])]

\* ------------------------------------------------------------- state
NoRun == [sess |-> "", event |-> "none", location |-> <<>>, description |-> <<>>,
          waste_type |-> "", uploaded |-> FALSE, result |-> <<>>, picked |-> 0]

Init ==
    /\ started = {}
    /\ reports_df = [s \in Sessions |-> <<>>]
    /\ csv = [exists |-> FALSE, lines |-> <<>>]
    /\ images = {}
    /\ issued = 0
    /\ now = 0
    /\ rerun = NoRun

\* First run of a session: 'reports_df' not in st.session_state.
Start(s) ==
    /\ s \notin started
    /\ started' = started \cup {s}
    /\ reports_df' = [reports_df EXCEPT ![s] = load_reports(csv)]
    /\ rerun' = [NoRun EXCEPT !.sess = s, !.event = "load"]
    /\ UNCHANGED <<csv, images, issued, now>>

\* Tab1Table appending the report in the validation step and again after it.
Tab1Table_Twice(df, new_report_data) ==
    IF new_report_data = <<>> THEN df
    ELSE Append(Append(df, Process(new_report_data[1])), Process(new_report_data[1]))

\* The table after tab1 ran with the form's return value.
Tab1Table(df, new_report_data) ==
    IF new_report_data = <<>> THEN df ELSE Append(df, Process(new_report_data[1]))

\* What a user enters before pressing "Submit Report", and what the disk does
\* with the upload.
Input(location, description, waste_type, reported_by, uploaded, wrote, imgp) ==
    [location |-> location, description |-> description, waste_type |-> waste_type,
     reported_by |-> reported_by, uploaded |-> uploaded, wrote |-> wrote, imgp |-> imgp]

\* Every combination of the modelled field values.
AllInputs ==
    {Input(l, d, w, c, u, wr, p) :
        l \in Locations, d \in Descriptions, w \in WasteTypes, c \in Contacts,
        u \in BOOLEAN, wr \in BOOLEAN, p \in Hex8}

\* One submission of each kind the lifecycle distinguishes: rejected (either
\* field empty, with an upload the disk accepts), invalid, valid by text,
\* valid by image, valid and hazardous.
SessionInputs ==
    LET vague == WordsLoc(WordThreshold - 1)
        exact == WordsLoc(WordThreshold)
        short == Chars(DescThreshold, "d")
        long == Chars(DescThreshold + 1, "d")
    IN {Input(<<>>, long, "General Trash", "", TRUE, TRUE, "0b"),
        Input(exact, <<>>, "Hazardous", "", TRUE, TRUE, "0b"),
        Input(vague, long, "General Trash", "", FALSE, FALSE, "0a"),
        Input(exact, long, "Recyclables", "", FALSE, FALSE, "0a"),
        Input(vague, short, "Construction Debris", "", TRUE, TRUE, "0a"),
        Input(exact, long, "Hazardous", "", FALSE, FALSE, "0a")}

\* A rerun of session s caused by the form's submit button, with an input of
\* Inputs, while fewer than cap reports were created.
SubmitIn(s, Inputs, cap) ==
    /\ s \in started
    /\ \E in \in Inputs, idp \in Hex8 :
          LET new_report_data ==
                  report_issue_form(in.location, in.waste_type, in.description,
                                    in.reported_by, in.uploaded, in.wrote, in.imgp,
                                    <<idp, issued + 1>>, now)
              created == new_report_data # <<>>
          IN /\ created => issued < cap
             /\ images' = FormImages(in.location, in.description, in.uploaded,
                                     in.wrote, in.imgp, images)
             /\ issued' = IF created THEN issued + 1 ELSE issued
             /\ now' = IF created THEN now + 1 ELSE now
             /\ reports_df' = [reports_df EXCEPT ![s] = Tab1Table(@, new_report_data)]
             /\ csv' = IF created THEN save_reports(reports_df'[s]) ELSE csv
             /\ UNCHANGED started
             /\ rerun' = [sess |-> s, event |-> "submit", location |-> in.location,
                          description |-> in.description, waste_type |-> in.waste_type,
                          uploaded |-> in.uploaded,
                          result |-> IF created THEN <<Process(new_report_data[1])>> ELSE <<>>,
                          picked |-> 0]

Submit(s) == SubmitIn(s, SessionInputs, MaxReports)

\* ---------------------------------------------------- tab2 admin actions
\* Positions of df[df['Status'].str.contains('target|Dispatch')], in order.
unresolved_reports(df) ==
    {i \in 1..Len(df) : str_contains_target_or_Dispatch(df[i].Status)}

Min(S) == CHOOSE x \in S : \A y \in S : x <= y

\* The selectbox option shown for row k: f"{x[:8]} - {Location}".
Option(df, k) ==
    <<Prefix8(df[k].ID), " - ", df[Min({i \in 1..Len(df) : df[i].ID = df[k].ID})].Location>>

\* report_id_to_resolve.split(' - ')[0]
selected_id(option) == option[1]

\* unresolved_reports[unresolved_reports['ID'].str.startswith(selected_id)].iloc[0]['ID']
full_id(df, sel) ==
    df[Min({i \in unresolved_reports(df) : Prefix8(df[i].ID) = sel})].ID

\* reports_df[reports_df['ID'] == full_id].index[0]
index_to_resolve(df, id) == Min({i \in 1..Len(df) : df[i].ID = id})

\* Resolved writing the wrong status label.
Resolved_AsNew(df, option) ==
    LET idx == index_to_resolve(df, full_id(df, selected_id(option)))
    IN [df EXCEPT ![idx].Status = "New", ![idx].Priority = "Resolved"]

\* The table after the button's handler ran with the given option selected.
Resolved(df, option) ==
    LET idx == index_to_resolve(df, full_id(df, selected_id(option)))
    IN [df EXCEPT ![idx].Status = "Resolved", ![idx].Priority = "Resolved"]

\* A rerun of session s caused by "Mark Selected Report as Resolved", with the
\* option of row k selected in resolve_select.
Resolve(s) ==
    /\ s \in started
    /\ reports_df[s] # <<>>
    /\ \E k \in unresolved_reports(reports_df[s]) :
          /\ reports_df' = [reports_df EXCEPT ![s] = Resolved(@, Option(@, k))]
          /\ csv' = save_reports(reports_df'[s])
          /\ rerun' = [NoRun EXCEPT !.sess = s, !.event = "resolve", !.picked = k]
    /\ UNCHANGED <<started, images, issued, now>>

Next ==
    \/ \E s \in Sessions : Start(s)
    \/ \E s \in Sessions : Submit(s)
    \/ \E s \in Sessions : Resolve(s)

Spec == Init /\ [][Next]_vars

\* One session and every input, until one report is created: the pipeline as
\* a function of the form.
PipeNext ==
    \/ Start("s1")
    \/ SubmitIn("s1", IF issued = 0 THEN AllInputs ELSE {}, 1)
    \/ Resolve("s1")

PipeSpec == Init /\ [][PipeNext]_vars
\* =================================================================
\* Properties
\* =================================================================
RoutedLabels ==
    {"Queued for Standard Pickup (72 hr target)",
     "Awaiting Specialized Team Dispatch",
     "Assigned to Local Crew (24 hr target)",
     "Assigned to Local Crew (48 hr target)"}

\* Position of a Status on the path New -> routed label -> Resolved.
Rank(status) == IF status = "New" THEN 0 ELSE IF status = "Resolved" THEN 2 ELSE 1

Rows(df) == {df[i] : i \in 1..Len(df)}

IDs(df) == {df[i].ID : i \in 1..Len(df)}

\* The step just taken is a submit rerun / a resolve rerun (rerun' names it).
SubmitStep == rerun'.event = "submit"
ResolveStep == rerun'.event = "resolve"

\* C1: in a session's table a stored report's Status only moves forward along
\* New -> routed label -> Resolved: its rank never decreases, and while the
\* rank stays the label stays (Resolved stays Resolved, a routed label is
\* never replaced by New or by another routed label).
C1_StatusMonotonic ==
    [][\A s \in Sessions : \A i \in 1..Len(reports_df[s]) :
          /\ i <= Len(reports_df'[s])
          /\ reports_df'[s][i].ID = reports_df[s][i].ID
          /\ Rank(reports_df'[s][i].Status) >= Rank(reports_df[s][i].Status)
          /\ Rank(reports_df'[s][i].Status) = Rank(reports_df[s][i].Status)
                => reports_df'[s][i].Status = reports_df[s][i].Status]_vars

\* A table holding a resolved report and a routed one, after a submit that
\* followed the resolution.
C1_Witness ==
    /\ rerun.event = "submit" /\ rerun.result # <<>>
    /\ \E r \in Rows(reports_df[rerun.sess]) : r.Status = "Resolved"
    /\ \E r \in Rows(reports_df[rerun.sess]) : r.Status \in RoutedLabels

\* The persisted lines carry exactly the reports of df, in order, with their
\* Status and Priority.
SameTable(file, df) ==
    /\ file.exists
    /\ Len(file.lines) = Len(df)
    /\ \A i \in 1..Len(df) :
          /\ file.lines[i].ID = df[i].ID
          /\ file.lines[i].Status = df[i].Status
          /\ file.lines[i].Priority = (IF Unset(df[i].Priority) THEN "" ELSE df[i].Priority)

\* C2: every mutation (append or resolve) rewrites the whole persisted table
\* from the writing session's own copy: after each write the file equals the
\* writer's table, whatever the other session had written before.
C2_LastWriterWins ==
    [][(csv' # csv \/ (ResolveStep \/ (SubmitStep /\ rerun'.result # <<>>)))
          => SameTable(csv', reports_df'[rerun'.sess])]_vars

\* Both sessions run, and a report one session appended (and saved) is no
\* longer in the file after the other session's write; or a resolution one
\* session saved has been overwritten by the other's pending copy.
C2_Witness ==
    /\ started = Sessions
    /\ \E s \in Sessions :
          /\ rerun.sess # s
          /\ \/ \E r \in Rows(reports_df[s]) : r.ID \notin IDs(csv.lines)
             \/ \E r \in Rows(reports_df[s]) : \E l \in Rows(csv.lines) :
                   l.ID = r.ID /\ r.Status = "Resolved" /\ l.Status # "Resolved"

\* C3 as stated: a stored report with Is_Valid = false has Priority and
\* Status both unset.
C3_InvalidStatusUnset ==
    \A s \in Sessions : \A r \in Rows(reports_df[s]) :
        r.Is_Valid = PyFalse => Unset(r.Priority) /\ Unset(r.Status)

\* C3 (amended): a stored report with Is_Valid = false is never routed: in
\* every state its Priority is unset and its Status is the "New" the form
\* gave it, in each session's table and in the file.
C3_InvalidNeverRouted ==
    /\ \A s \in Sessions : \A r \in Rows(reports_df[s]) :
          r.Is_Valid = PyFalse => Unset(r.Priority) /\ r.Status = "New"
    /\ \A l \in Rows(csv.lines) :
          l.Is_Valid = PyFalse => l.Priority = "" /\ l.Status = "New"

\* An invalid report stored in a table where a later report was routed and
\* then resolved.
C3_Witness ==
    \E s \in Sessions : \E i, j \in 1..Len(reports_df[s]) :
        /\ i < j
        /\ reports_df[s][i].Is_Valid = PyFalse
        /\ reports_df[s][j].Status = "Resolved"

\* Number of words of a text: the positions where a non-blank run begins.
WordCount(text) ==
    Cardinality({i \in 1..Len(text) : text[i] # " " /\ (i = 1 \/ text[i - 1] = " ")})

\* The report the latest submission created, if any.
Created == rerun.event = "submit" /\ rerun.result # <<>>
Report == rerun.result[1]

NoImage(r) == r.Image_Filename = None \/ r.Image_Filename = SavingFailed

\* C4: the report a submission creates has Is_Valid = (word_count(Location)
\* >= 3 and length(Description) > 30) or has_image, and Predicted_Area =
\* "Hazardous Waste Zone" if Waste_Type contains "Hazardous", else "Urban
\* Cleanup Sector A" if valid, else "Validation Pending/Vague Location".
C4_Validator ==
    Created =>
        LET r == Report
            valid == (WordCount(r.Location) >= 3 /\ Len(r.Description) > 30) \/ ~NoImage(r)
        IN /\ r.Location = rerun.location /\ r.Description = rerun.description
           /\ r.Waste_Type = rerun.waste_type
           /\ r.Is_Valid = (IF valid THEN PyTrue ELSE PyFalse)
           /\ r.Predicted_Area =
                 (IF r.Waste_Type = "Hazardous" THEN "Hazardous Waste Zone"
                  ELSE IF valid THEN "Urban Cleanup Sector A"
                  ELSE "Validation Pending/Vague Location")

\* A report with two words between extra blanks, a 30-character description
\* and a failed upload, found invalid.
C4_Witness ==
    /\ Created
    /\ WordCount(Report.Location) = 2 /\ Len(Report.Location) > 3
    /\ Len(Report.Description) = 30
    /\ Report.Image_Filename = SavingFailed
    /\ Report.Is_Valid = PyFalse
    /\ Report.Predicted_Area = "Validation Pending/Vague Location"

\* C5: a valid report with Waste_Type "Hazardous" is routed to Priority
\* "Critical (Immediate Action)" and Status "Awaiting Specialized Team
\* Dispatch", whatever its Location, Description and image.
C5_HazardousCritical ==
    (Created /\ Report.Is_Valid = PyTrue /\ Report.Waste_Type = "Hazardous") =>
        /\ Report.Priority = "Critical (Immediate Action)"
        /\ Report.Status = "Awaiting Specialized Team Dispatch"

\* A hazardous report valid only by its image, routed.
C5_Witness ==
    /\ Created
    /\ Report.Waste_Type = "Hazardous"
    /\ Report.Is_Valid = PyTrue
    /\ ~NoImage(Report)
    /\ WordCount(Report.Location) < 3
    /\ Report.Priority = "Critical (Immediate Action)"

\* C6: a submission whose Location or Description is empty returns no record
\* and changes neither any session table, nor the file, nor the image files,
\* nor the identifiers issued.
C6_EmptyRejected ==
    [][(SubmitStep /\ (rerun'.location = <<>> \/ rerun'.description = <<>>))
          => /\ rerun'.result = <<>>
             /\ UNCHANGED <<reports_df, csv, images, issued, started>>]_vars

\* A rejected submission that carried an upload, made when the table and the
\* file already held a report.
C6_Witness ==
    /\ rerun.event = "submit"
    /\ rerun.description = <<>> /\ rerun.location # <<>>
    /\ rerun.uploaded
    /\ rerun.result = <<>>
    /\ reports_df[rerun.sess] # <<>>
    /\ csv.exists

\* The option picked in resolve_select by the step just taken names row i of
\* session s: a pending row showing the very option of the row picked.
Selected(s, i) ==
    /\ ResolveStep /\ rerun'.sess = s
    /\ i \in unresolved_reports(reports_df[s])
    /\ Option(reports_df[s], i) = Option(reports_df[s], rerun'.picked)

\* C7: resolving the report selected in the dashboard sets that report's
\* Status and Priority to "Resolved" and changes nothing else: a row the
\* selected option does not name is unchanged by every step, and the row a
\* selected option names alone becomes the same row with Status and Priority
\* "Resolved".
C7_ResolveSelected ==
    [][\A s \in Sessions : \A i \in 1..Len(reports_df[s]) :
          /\ i <= Len(reports_df'[s])
          /\ ~Selected(s, i) => reports_df'[s][i] = reports_df[s][i]
          /\ (Selected(s, i) /\ \A j \in 1..Len(reports_df[s]) : Selected(s, j) => j = i)
                => reports_df'[s][i] =
                      [reports_df[s][i] EXCEPT !.Status = "Resolved", !.Priority = "Resolved"]]_vars

\* C8: every accepted submission grows the submitting session's table by
\* exactly one row, the created report, whose ID is in no table and not in
\* the file before; resolve never adds or removes rows; and no two rows of a
\* table share an ID.
C8_AppendOnceUniqueID ==
    [][/\ \A s \in Sessions :
             Len(reports_df'[s]) =
                 IF SubmitStep /\ rerun'.sess = s /\ rerun'.result # <<>>
                 THEN Len(reports_df[s]) + 1
                 ELSE IF s \in started THEN Len(reports_df[s])
                 ELSE Len(reports_df'[s])
       /\ (SubmitStep /\ rerun'.result # <<>>) =>
             LET df == reports_df'[rerun'.sess]
             IN /\ df[Len(df)] = rerun'.result[1]
                /\ \A s \in Sessions : df[Len(df)].ID \notin IDs(reports_df[s])
                /\ df[Len(df)].ID \notin IDs(csv.lines)
       /\ \A s \in Sessions : \A i, j \in 1..Len(reports_df'[s]) :
             reports_df'[s][i].ID = reports_df'[s][j].ID => i = j]_vars

\* A table of two reports, the second just resolved.
C8_Witness ==
    /\ rerun.event = "resolve"
    /\ Len(reports_df[rerun.sess]) = 2
    /\ reports_df[rerun.sess][2].Status = "Resolved"

\* C9: every report the pipeline finds valid whose Waste_Type is not
\* "Hazardous" has Predicted_Area "Urban Cleanup Sector A", Priority "High"
\* and Status "Assigned to Local Crew (24 hr target)"; and no created report
\* has Priority "Medium" or "Medium/High (Visual Verified)" or Status "Queued
\* for Standard Pickup (72 hr target)" or "Assigned to Local Crew (48 hr
\* target)".
C9_MediumUnreachable ==
    Created =>
        /\ (Report.Is_Valid = PyTrue /\ Report.Waste_Type # "Hazardous") =>
              /\ Report.Predicted_Area = "Urban Cleanup Sector A"
              /\ Report.Priority = "High"
              /\ Report.Status = "Assigned to Local Crew (24 hr target)"
        /\ Report.Priority \notin {"Medium", "Medium/High (Visual Verified)"}
        /\ Report.Status \notin {"Queued for Standard Pickup (72 hr target)",
                                 "Assigned to Local Crew (48 hr target)"}

\* A non-hazardous report valid only by its image, routed High.
C9_Witness ==
    /\ Created
    /\ Report.Waste_Type = "Other"
    /\ ~NoImage(Report)
    /\ WordCount(Report.Location) < 3
    /\ Report.Priority = "High"

\* C10: in every table a stored report has Status "New" exactly when its
\* Is_Valid is false; so an invalid report is never Resolved and a valid one
\* is never New.
C10_NewIffInvalid ==
    \A s \in Sessions : \A r \in Rows(reports_df[s]) :
        /\ r.Is_Valid \in {PyTrue, PyFalse}
        /\ r.Status = "New" <=> r.Is_Valid = PyFalse

\* After a resolution: an invalid report still New beside a resolved one.
C10_Witness ==
    /\ rerun.event = "resolve"
    /\ \E r \in Rows(reports_df[rerun.sess]) : r.Is_Valid = PyFalse /\ r.Status = "New"
    /\ \E r \in Rows(reports_df[rerun.sess]) : r.Is_Valid = PyTrue /\ r.Status = "Resolved"
====
